---- MODULE Spec2Model ----
(***************************************************************************)
(* Model of src/main.py: the LLM-backed text analyzer with its local       *)
(* fallback.  A text is a sequence of one-character strings.  A dict is a  *)
(* record (a function over its keys); an entry of top_words is a record    *)
(* that keeps the Python type of the pair (tuple or list) and its length.  *)
(***************************************************************************)
EXTENDS Integers, Sequences, FiniteSets, TLC

VARIABLES text, pc, client, remote, stats, printed, err

vars == <<text, pc, client, remote, stats, printed, err>>

(* ------------------------------ bounds --------------------------------- *)
MaxLen == 4
MaxLenMain == 2
MaxSuffix == 2

(* most_common(10) *)
TopN == 10

(* --------------------------- character classes ------------------------- *)
\* string.punctuation (the grave accent, which a TLA+ string cannot hold, is
\* written "GRAVE")
Punctuation ==
    {"!", "\"", "#", "$", "%", "&", "'", "(", ")", "*", "+", ",", "-", ".",
     "/", ":", ";", "<", "=", ">", "?", "@", "[", "\\", "]", "^", "_", "GRAVE",
     "{", "|", "}", "~"}

\* the characters str.strip() and str.split() treat as whitespace (ASCII part)
Whitespace == {" ", "\t", "\n", "\r", "\f"}

\* the character class of the pattern r'[.!?]+'
Terminators == {".", "!", "?"}

\* the characters w.strip("'-") removes
Dangling == {"'", "-"}

\* str.maketrans('', '', string.punctuation.replace("'", "").replace("-", ""))
translator == Punctuation \ {"'", "-"}

\* the ASCII letters str.lower() changes, each with its lower-case form
LowerPairs ==
    {
      <<"A", "a">>, <<"B", "b">>, <<"C", "c">>, <<"D", "d">>, <<"E", "e">>,
      <<"F", "f">>, <<"G", "g">>, <<"H", "h">>, <<"I", "i">>, <<"J", "j">>,
      <<"K", "k">>, <<"L", "l">>, <<"M", "m">>, <<"N", "n">>, <<"O", "o">>,
      <<"P", "p">>, <<"Q", "q">>, <<"R", "r">>, <<"S", "s">>, <<"T", "t">>,
      <<"U", "u">>, <<"V", "v">>, <<"W", "w">>, <<"X", "x">>, <<"Y", "y">>,
      <<"Z", "z">>}

\* str.lower() on one character
LowerChar(c) ==
    IF \E p \in LowerPairs : p[1] = c
    THEN (CHOOSE p \in LowerPairs : p[1] = c)[2]
    ELSE c

Min(a, b) == IF a <= b THEN a ELSE b

(* ------------------------------ str methods ---------------------------- *)
RECURSIVE LStrip(_, _)
LStrip(s, chars) ==
    IF s = <<>> THEN <<>>
    ELSE IF Head(s) \in chars THEN LStrip(Tail(s), chars) ELSE s

RECURSIVE RStrip(_, _)
RStrip(s, chars) ==
    IF s = <<>> THEN <<>>
    ELSE IF s[Len(s)] \in chars THEN RStrip(SubSeq(s, 1, Len(s) - 1), chars)
    ELSE s

\* str.strip(chars); str.strip() is StrStrip(s, Whitespace)
StrStrip(s, chars) == RStrip(LStrip(s, chars), chars)

\* str.translate(table) with a table that only deletes
Translate(s, deleted) == SelectSeq(s, LAMBDA c : c \notin deleted)

\* str.lower()
Lower(s) == [i \in 1..Len(s) |-> LowerChar(s[i])]

\* str.split() with no argument: the maximal runs of non-whitespace
RECURSIVE SplitFrom(_, _, _, _)
SplitFrom(s, i, cur, acc) ==
    IF i > Len(s) THEN (IF cur = <<>> THEN acc ELSE Append(acc, cur))
    ELSE IF s[i] \in Whitespace
         THEN SplitFrom(s, i + 1, <<>>, IF cur = <<>> THEN acc ELSE Append(acc, cur))
         ELSE SplitFrom(s, i + 1, Append(cur, s[i]), acc)

Split(s) == SplitFrom(s, 1, <<>>, <<>>)

(* ------------------------------ re.split ------------------------------- *)
\* the end of the match of [.!?]+ that starts at i (the regex is greedy)
RECURSIVE MatchEnd(_, _)
MatchEnd(s, i) ==
    IF i < Len(s) /\ s[i + 1] \in Terminators THEN MatchEnd(s, i + 1) ELSE i

\* re.split(r'[.!?]+', s): the pieces between the matches, empty ones kept
RECURSIVE ReSplitFrom(_, _, _, _)
ReSplitFrom(s, i, cur, acc) ==
    IF i > Len(s) THEN Append(acc, cur)
    ELSE IF s[i] \in Terminators
         THEN ReSplitFrom(s, MatchEnd(s, i) + 1, <<>>, Append(acc, cur))
         ELSE ReSplitFrom(s, i + 1, Append(cur, s[i]), acc)

re_split(s) == ReSplitFrom(s, 1, <<>>, <<>>)

\* mutant: the filter keeps whitespace-only segments ("if s")
sentences_keep_blank(t) == SelectSeq(re_split(t), LAMBDA s : s # <<>>)

\* sentences = [s for s in re.split(...) if s.strip()]
sentences(t) == SelectSeq(re_split(t), LAMBDA s : StrStrip(s, Whitespace) # <<>>)

(* ------------------------------ words ---------------------------------- *)
\* mutant: the translation table deletes all of string.punctuation
clean_text_all_punct(t) == Lower(Translate(t, Punctuation))

\* clean_text = text.translate(translator).lower()
clean_text(t) == Lower(Translate(t, translator))

\* mutant: the pieces are not trimmed, only empty ones are dropped
words_untrimmed(t) == SelectSeq(Split(clean_text(t)), LAMBDA w : w # <<>>)

\* words = [w.strip("'-") for w in clean_text.split() if w.strip("'-")]
words(t) ==
    LET pieces == Split(clean_text(t))
        kept   == SelectSeq(pieces, LAMBDA w : StrStrip(w, Dangling) # <<>>)
    IN  [i \in 1..Len(kept) |-> StrStrip(kept[i], Dangling)]

(* ------------------------------ Counter -------------------------------- *)
\* Counter(ws): the items of the dict, in insertion (first occurrence) order
RECURSIVE CounterFrom(_, _, _)
CounterFrom(ws, i, items) ==
    IF i > Len(ws) THEN items
    ELSE IF \E k \in 1..Len(items) : items[k].word = ws[i]
         THEN CounterFrom(ws, i + 1,
                [k \in 1..Len(items) |->
                    IF items[k].word = ws[i]
                    THEN [items[k] EXCEPT !.freq = @ + 1] ELSE items[k]])
         ELSE CounterFrom(ws, i + 1, Append(items, [word |-> ws[i], freq |-> 1]))

Counter(ws) == CounterFrom(ws, 1, <<>>)

\* mutant: an item is placed before the items of equal count
InsertByCountUnstable(sorted, item) ==
    LET before == SelectSeq(sorted, LAMBDA e : e.freq > item.freq)
        after  == SelectSeq(sorted, LAMBDA e : e.freq <= item.freq)
    IN  before \o <<item>> \o after

\* one step of sorted(items, key=itemgetter(1), reverse=True): the sort is
\* stable, an item goes after every item whose count is not smaller
InsertByCount(sorted, item) ==
    LET before == SelectSeq(sorted, LAMBDA e : e.freq >= item.freq)
        after  == SelectSeq(sorted, LAMBDA e : e.freq < item.freq)
    IN  before \o <<item>> \o after

RECURSIVE SortByCount(_, _, _)
SortByCount(items, i, sorted) ==
    IF i > Len(items) THEN sorted
    ELSE SortByCount(items, i + 1, InsertByCount(sorted, items[i]))

\* Counter.most_common(n) is heapq.nlargest(n, items, key=itemgetter(1)),
\* i.e. sorted(items, key=..., reverse=True)[:n]; the pairs are tuples
most_common(items, n) ==
    LET sorted == SortByCount(items, 1, <<>>)
    IN  [i \in 1..Min(n, Len(sorted)) |->
            [type |-> "tuple", len |-> 2,
             word |-> sorted[i].word, freq |-> sorted[i].freq]]

FallbackNote == "Analysis performed using fallback method due to LLM error."

fallback_analysis(t) ==
    LET word_freq == Counter(words(t))
    IN  [word_count     |-> Len(words(t)),
         sentence_count |-> Len(sentences(t)),
         top_words      |-> most_common(word_freq, TopN),
         note           |-> FallbackNote]

\* the dict returned for "not text"
EmptyResult == [word_count |-> 0, sentence_count |-> 0, top_words |-> <<>>]

(* ------------------------------ inputs --------------------------------- *)
Alphabet == {"a", "b", "A", " ", ".", "!", ",", "'", "-"}

TextsUpTo(n) == UNION {[1..k -> Alphabet] : k \in 0..n}

\* "end-to-end testing isn't easy."
HyphenText ==
    <<"e", "n", "d", "-", "t", "o", "-", "e", "n", "d", " ",
      "t", "e", "s", "t", "i", "n", "g", " ",
      "i", "s", "n", "'", "t", " ", "e", "a", "s", "y", ".">>

\* "Wait... really?! Yes."
WaitText ==
    <<"W", "a", "i", "t", ".", ".", ".", " ",
      "r", "e", "a", "l", "l", "y", "?", "!", " ", "Y", "e", "s", ".">>

\* "Cat cat CAT"
CatText == <<"C", "a", "t", " ", "c", "a", "t", " ", "C", "A", "T">>

\* "No. ... Yes!"
BlankSegmentText ==
    <<"N", "o", ".", " ", ".", ".", ".", " ", "Y", "e", "s", "!">>

\* "A a - 'a' --"
DanglingText ==
    <<"A", " ", "a", " ", "-", " ", "'", "a", "'", " ", "-", "-">>

SampleTexts ==
    {HyphenText, WaitText, CatText, BlankSegmentText, DanglingText,
     <<"\t", "\n">>, <<"-", " ", "-">>}

\* twelve raw words whose normalized forms differ
Vocab ==
    << <<"k">>, <<"B">>, <<"a", ",">>, <<"d">>, <<"c">>, <<"f", "-">>,
       <<"e">>, <<"h">>, <<"'", "g">>, <<"j">>, <<"i">>, <<"l">> >>

RECURSIVE JoinWords(_)
JoinWords(ids) ==
    IF ids = <<>> THEN <<>>
    ELSE IF Len(ids) = 1 THEN Vocab[ids[1]]
    ELSE Vocab[ids[1]] \o <<" ">> \o JoinWords(Tail(ids))

\* the first k words of Vocab followed by up to MaxSuffix words of Vocab
VocabTexts ==
    {JoinWords([i \in 1..k |-> i] \o suf) :
        k \in 0..Len(Vocab),
        suf \in UNION {[1..m -> 1..Len(Vocab)] : m \in 0..MaxSuffix}}

LocalInputs == TextsUpTo(MaxLen) \cup SampleTexts \cup VocabTexts

MainInputs == TextsUpTo(MaxLenMain) \cup SampleTexts

\* what json.loads may return for the content of the remote reply
ListEntry(w, n) == [type |-> "list", len |-> 2, word |-> w, freq |-> n]

JsonReplies ==
    {[word_count |-> 2, sentence_count |-> 1,
      top_words |-> <<ListEntry(<<"a">>, 1), ListEntry(<<"b">>, 1)>>],
     [word_count |-> 0, sentence_count |-> 0, top_words |-> <<>>],
     [word_count |-> 2, sentence_count |-> 1],
     [word_count |-> 2],
     [word_count |-> 1, sentence_count |-> 1,
      top_words |-> <<[type |-> "list", len |-> 3, word |-> <<"a">>, freq |-> 1]>>],
     [answer |-> 1]}

(* ------------------------------ state ---------------------------------- *)
NoStats == [unset |-> TRUE]

NoOutput == [note |-> FALSE, word_count |-> "None", sentence_count |-> "None",
             lines |-> <<>>]

NotCalled == [kind |-> "not_called"]

Init ==
    /\ text \in MainInputs
    /\ pc = "main"
    /\ client = "unset"
    /\ remote = NotCalled
    /\ stats = NoStats
    /\ printed = NoOutput
    /\ err = ""

\* a direct call of fallback_analysis(text)
InitLocal ==
    /\ text \in LocalInputs
    /\ pc = "local"
    /\ client = "unset"
    /\ remote = NotCalled
    /\ stats = NoStats
    /\ printed = NoOutput
    /\ err = ""

(* ------------------------------ main ----------------------------------- *)
\* main: open('sample_text.txt') succeeds, the content is read and
\* analyze_text_with_llm(content) is called
MainReadFile ==
    /\ pc = "main"
    /\ pc' = "analyze"
    /\ UNCHANGED <<text, client, remote, stats, printed, err>>

\* main: except FileNotFoundError
MainFileNotFound ==
    /\ pc = "main"
    /\ pc' = "done"
    /\ err' = "not_found"
    /\ UNCHANGED <<text, client, remote, stats, printed>>

(* ------------------------ analyze_text_with_llm ------------------------ *)
\* "if not text": only the empty string is falsy
AnalyzeEmpty ==
    /\ pc = "analyze"
    /\ text = <<>>
    /\ stats' = EmptyResult
    /\ pc' = "print"
    /\ UNCHANGED <<text, client, remote, printed, err>>

\* get_openai_client returns a client: from OpenAI(http_client=...), or from
\* OpenAI() in the TypeError handler
AnalyzeClientOk ==
    /\ pc = "analyze"
    /\ text # <<>>
    /\ \E how \in {"primary", "typeerror_fallback"} : client' = how
    /\ pc' = "call"
    /\ UNCHANGED <<text, remote, stats, printed, err>>

\* get_openai_client: "except Exception" returns None; "if not client"
\* returns fallback_analysis(text)
AnalyzeClientNone ==
    /\ pc = "analyze"
    /\ text # <<>>
    /\ client' = "None"
    /\ stats' = fallback_analysis(text)
    /\ pc' = "print"
    /\ UNCHANGED <<text, remote, printed, err>>

\* get_openai_client: the first attempt raises TypeError and OpenAI() in the
\* handler raises too; no clause of the same try catches it, and
\* analyze_text_with_llm calls get_openai_client outside its own try
AnalyzeClientRaises ==
    /\ pc = "analyze"
    /\ text # <<>>
    /\ client' = "raised"
    /\ pc' = "except"
    /\ UNCHANGED <<text, remote, stats, printed, err>>

\* client.chat.completions.create raises (network, authentication, rate
\* limit, timeout): "except Exception" returns fallback_analysis(text)
RemoteCallRaises ==
    /\ pc = "call"
    /\ remote' = [kind |-> "raise"]
    /\ stats' = fallback_analysis(text)
    /\ pc' = "print"
    /\ UNCHANGED <<text, client, printed, err>>

\* json.loads raises on the content of the reply
RemoteUnparseable ==
    /\ pc = "call"
    /\ remote' = [kind |-> "unparseable"]
    /\ stats' = fallback_analysis(text)
    /\ pc' = "print"
    /\ UNCHANGED <<text, client, printed, err>>

\* json.loads succeeds: "return result", whatever the object holds
RemoteJson ==
    /\ pc = "call"
    /\ \E value \in JsonReplies :
          /\ remote' = [kind |-> "json", value |-> value]
          /\ stats' = value
    /\ pc' = "print"
    /\ UNCHANGED <<text, client, printed, err>>

(* ------------------------------ printing ------------------------------- *)
\* stats.get(key): None when the key is missing
DictGet(d, k) == IF k \in DOMAIN d THEN d[k] ELSE "None"

\* isinstance(item, list) and len(item) == 2
IsPrinted(item) == item.type = "list" /\ item.len = 2

\* the "word: freq" lines of the loop over stats.get('top_words', [])
WordLines(d) ==
    LET top == IF "top_words" \in DOMAIN d THEN d.top_words ELSE <<>>
        shown == SelectSeq(top, IsPrinted)
    IN  [i \in 1..Len(shown) |-> [word |-> shown[i].word, freq |-> shown[i].freq]]

\* main after analyze_text_with_llm returned
MainPrint ==
    /\ pc = "print"
    /\ printed' = [note |-> "note" \in DOMAIN stats,
                   word_count |-> DictGet(stats, "word_count"),
                   sentence_count |-> DictGet(stats, "sentence_count"),
                   lines |-> WordLines(stats)]
    /\ pc' = "done"
    /\ UNCHANGED <<text, client, remote, stats, err>>

\* main: "except Exception as e" for what analyze_text_with_llm raised
MainExcept ==
    /\ pc = "except"
    /\ err' = "error"
    /\ pc' = "done"
    /\ UNCHANGED <<text, client, remote, stats, printed>>

Next ==
    \/ MainReadFile
    \/ MainFileNotFound
    \/ AnalyzeEmpty
    \/ AnalyzeClientOk
    \/ AnalyzeClientNone
    \/ AnalyzeClientRaises
    \/ RemoteCallRaises
    \/ RemoteUnparseable
    \/ RemoteJson
    \/ MainPrint
    \/ MainExcept

Spec == Init /\ [][Next]_vars

\* fallback_analysis(text) called on its own
CallFallback ==
    /\ pc = "local"
    /\ stats' = fallback_analysis(text)
    /\ pc' = "returned"
    /\ UNCHANGED <<text, client, remote, printed, err>>

NextLocal == CallFallback

SpecLocal == InitLocal /\ [][NextLocal]_vars

(* ------------------------- vocabulary of the claims -------------------- *)
Blank(t) == \A i \in 1..Len(t) : t[i] \in Whitespace

\* fallback_analysis(text) has returned
LocalReturned == pc = "returned"

\* analyze_text_with_llm(text) has returned a value to main
Returned == pc \in {"print", "done"} /\ stats # NoStats

\* analyze_text_with_llm(text) has returned or raised
Finished == Returned \/ pc = "except" \/ (pc = "done" /\ err = "error")

\* the remote collaborator failed: no client, the call raised, or the reply
\* could not be parsed
RemoteFailed ==
    \/ client \in {"None", "raised"}
    \/ remote.kind \in {"raise", "unparseable"}

SameStatistics(d, e) ==
    /\ {"word_count", "sentence_count", "top_words"} \subseteq DOMAIN d
    /\ d.word_count = e.word_count
    /\ d.sentence_count = e.sentence_count
    /\ d.top_words = e.top_words

\* the schema of the remote reply: the three keys, top_words a list of
\* [word, frequency] pairs
ValidShape(d) ==
    /\ {"word_count", "sentence_count", "top_words"} \subseteq DOMAIN d
    /\ \A i \in 1..Len(d.top_words) :
          d.top_words[i].type = "list" /\ d.top_words[i].len = 2

\* the positions where a sentence starts: the first character that is
\* neither a terminator nor whitespace since the start of the text or since
\* the last terminator
SentenceStarts(t) ==
    {i \in 1..Len(t) :
        /\ t[i] \notin Terminators \cup Whitespace
        /\ \A j \in 1..(i - 1) :
              t[j] \notin Terminators \cup Whitespace
                 => \E k \in (j + 1)..(i - 1) : t[k] \in Terminators}

\* the positions where a counted word starts: the start of a maximal run of
\* non-whitespace that holds a character outside string.punctuation
WordStarts(t) ==
    {i \in 1..Len(t) :
        /\ t[i] \notin Whitespace
        /\ (i = 1 \/ t[i - 1] \in Whitespace)
        /\ \E j \in i..Len(t) :
              /\ t[j] \notin Whitespace \cup Punctuation
              /\ \A k \in i..j : t[k] \notin Whitespace}

\* the starts of the maximal runs of non-whitespace that are dropped
DroppedStarts(t) ==
    {i \in 1..Len(t) :
        /\ t[i] \notin Whitespace
        /\ (i = 1 \/ t[i - 1] \in Whitespace)
        /\ i \notin WordStarts(t)}

Distinct(ws) == {ws[i] : i \in 1..Len(ws)}

Occurrences(ws, w) == Cardinality({i \in 1..Len(ws) : ws[i] = w})

FirstOccurrence(ws, w) == CHOOSE i \in 1..Len(ws) :
                              ws[i] = w /\ \A j \in 1..(i - 1) : ws[j] # w

TopWordsOf(top) == {top[i].word : i \in 1..Len(top)}

RECURSIVE SumFreq(_)
SumFreq(top) == IF top = <<>> THEN 0 ELSE Head(top).freq + SumFreq(Tail(top))

EndToEnd == <<"e", "n", "d", "-", "t", "o", "-", "e", "n", "d">>

Isnt == <<"i", "s", "n", "'", "t">>

(* ------------------------------ claims --------------------------------- *)
\* C1: for every text, the result of fallback_analysis satisfies
\* word_count = 0 => sentence_count = 0, and sentence_count = 0 => top_words
\* is empty.
C1_Chain ==
    LocalReturned =>
        /\ (stats.word_count = 0 => stats.sentence_count = 0)
        /\ (stats.sentence_count = 0 => stats.top_words = <<>>)

\* C2: for the empty string and every whitespace-only string, the value
\* analyze_text_with_llm returns, on whichever path, has word_count 0,
\* sentence_count 0 and empty top_words.
C2_BlankIsZero ==
    (Returned /\ Blank(text)) => SameStatistics(stats, EmptyResult)

\* C3: if the remote collaborator fails for any reason, analyze_text_with_llm
\* returns a result whose word_count, sentence_count and top_words equal
\* those of fallback_analysis on the same text.
C3_FailureGivesFallback ==
    (Finished /\ RemoteFailed) =>
        /\ Returned
        /\ SameStatistics(stats, fallback_analysis(text))

\* C4: a reply that is not parseable, or that parses but lacks a required
\* key or has a wrong shape, is never returned to the caller; the local
\* fallback result is returned instead.
C4_InvalidReplyRejected ==
    (Returned /\ remote.kind \in {"unparseable", "json"}) =>
        \/ remote.kind = "json" /\ ValidShape(remote.value) /\ stats = remote.value
        \/ stats = fallback_analysis(text)

\* C5: no failure of the remote collaborator reaches the caller of
\* analyze_text_with_llm as an exception: a failure on a non-empty text ends
\* in a returned value computed by fallback_analysis.
C5_NoExceptionEscapes ==
    /\ pc # "except"
    /\ (text # <<>> /\ RemoteFailed /\ pc # "analyze") =>
          (Returned /\ stats = fallback_analysis(text))

\* C6: top_words of the local analysis has length min(10, number of distinct
\* words), holds each word with its number of occurrences, is in
\* non-increasing order of frequency with ties in order of first occurrence,
\* and no word left out precedes a listed one in that order.
C6_TopWordsRanking ==
    LocalReturned =>
        LET ws  == words(text)
            top == stats.top_words
        IN  /\ Len(top) = Min(10, Cardinality(Distinct(ws)))
            /\ \A i \in 1..Len(top) :
                  /\ top[i].word \in Distinct(ws)
                  /\ top[i].freq = Occurrences(ws, top[i].word)
            /\ \A i, j \in 1..Len(top) :
                  i < j =>
                     \/ top[i].freq > top[j].freq
                     \/ /\ top[i].freq = top[j].freq
                        /\ FirstOccurrence(ws, top[i].word)
                              < FirstOccurrence(ws, top[j].word)
            /\ \A w \in Distinct(ws) \ TopWordsOf(top) :
                  \A i \in 1..Len(top) :
                     \/ Occurrences(ws, w) < top[i].freq
                     \/ /\ Occurrences(ws, w) = top[i].freq
                        /\ FirstOccurrence(ws, w)
                              > FirstOccurrence(ws, top[i].word)

\* more than ten distinct words, a tie inside the list and a tie between the
\* tenth word and a word left out
C6_Witness ==
    /\ LocalReturned
    /\ Cardinality(Distinct(words(text))) > 10
    /\ Len(stats.top_words) = 10
    /\ stats.top_words[1].freq > stats.top_words[2].freq
    /\ stats.top_words[9].freq = stats.top_words[10].freq
    /\ \E w \in Distinct(words(text)) \ TopWordsOf(stats.top_words) :
          Occurrences(words(text), w) = stats.top_words[10].freq

\* C7: sentence_count is the number of segments, neither empty nor
\* whitespace-only, between maximal runs of '.', '!' and '?';
\* "Wait... really?! Yes." gives 3 and a non-blank text without terminator
\* gives 1.
C7_SentenceCount ==
    LocalReturned =>
        /\ stats.sentence_count = Cardinality(SentenceStarts(text))
        /\ (text = WaitText => stats.sentence_count = 3)
        /\ ((~Blank(text) /\ \A i \in 1..Len(text) : text[i] \notin Terminators)
               => stats.sentence_count = 1)

\* a run of two terminators and a whitespace-only segment between two
\* sentences
C7_Witness ==
    /\ LocalReturned
    /\ stats.sentence_count = 2
    /\ \E i \in 1..(Len(text) - 2) :
          /\ text[i] \in Terminators
          /\ text[i + 1] \in Whitespace
          /\ text[i + 2] \in Terminators
    /\ \E i \in 1..(Len(text) - 1) :
          text[i] \in Terminators /\ text[i + 1] \in Terminators

\* C8 as stated: "end-to-end testing isn't easy." keeps "end-to-end" and
\* "isn't" as single words and gives sentence_count 1 and word_count 5.
C8_Original ==
    (LocalReturned /\ text = HyphenText) =>
        /\ EndToEnd \in TopWordsOf(stats.top_words)
        /\ Isnt \in TopWordsOf(stats.top_words)
        /\ stats.sentence_count = 1
        /\ stats.word_count = 5

\* C8 amended: "end-to-end testing isn't easy." keeps "end-to-end" and
\* "isn't" as single words and gives sentence_count 1 and word_count 4.
C8_Amended ==
    (LocalReturned /\ text = HyphenText) =>
        /\ EndToEnd \in TopWordsOf(stats.top_words)
        /\ Isnt \in TopWordsOf(stats.top_words)
        /\ stats.sentence_count = 1
        /\ stats.word_count = 4

C8_Witness ==
    /\ LocalReturned
    /\ text = HyphenText
    /\ Len(stats.top_words) = 4

\* C9: word_count is the number of whitespace-separated pieces that are not
\* empty once lower-cased, stripped of punctuation other than ' and -, and
\* trimmed of leading and trailing ' and -; every occurrence counts, no
\* counted token is empty, and the frequencies of top_words sum to at most
\* word_count.
C9_WordCount ==
    LocalReturned =>
        LET ws  == words(text)
            top == stats.top_words
            sum == SumFreq(top)
        IN  /\ stats.word_count = Cardinality(WordStarts(text))
            /\ \A i \in 1..Len(ws) : ws[i] # <<>>
            /\ \A i \in 1..Len(top) : top[i].word # <<>>
            /\ sum <= stats.word_count
            /\ (Len(top) < 10 => sum = stats.word_count)

\* a piece made of punctuation only is dropped, and a word occurs twice
C9_Witness ==
    /\ LocalReturned
    /\ DroppedStarts(text) # {}
    /\ \E i \in DroppedStarts(text) : text[i] \in Dangling
    /\ stats.word_count >= 2
    /\ Len(stats.top_words) < stats.word_count

\* C10: main prints one "word: frequency" line for every entry of the
\* result's top_words, whichever path produced the result.
C10_EveryEntryPrinted ==
    (pc = "done" /\ err = "") =>
        LET top == IF "top_words" \in DOMAIN stats THEN stats.top_words ELSE <<>>
        IN  /\ Len(printed.lines) = Len(top)
            /\ \A i \in 1..Len(top) :
                  /\ printed.lines[i].word = top[i].word
                  /\ printed.lines[i].freq = top[i].freq

====
